---- MODULE Spec2Model ----
(***************************************************************************)
(* The session lifecycle of the soulsurfer client: the App controller      *)
(* (screen / sessionId / report / error), the UploadForm that creates a    *)
(* session, the ProcessingScreen poll effect that watches it, the          *)
(* ChatPanel of a report, and the transport functions of api.js.           *)
(*                                                                         *)
(* Specifications:                                                         *)
(*   Spec        the application as wired in App: ProcessingScreen is      *)
(*               mounted and unmounted by App's render, its callbacks are  *)
(*               handleComplete and handleError;                           *)
(*   SpecPoller  the ProcessingScreen component under an arbitrary owner,  *)
(*               who may mount it, unmount it or re-render it with other   *)
(*               props (the effect's dependency array) at any moment; its  *)
(*               callbacks are only recorded;                              *)
(*   SpecLive    Spec with the timers firing and the requests settling;    *)
(*   SpecKonami  App's keydown listener, whose state (konamiIndex,         *)
(*               showEasterEgg) no other part of the program reads or      *)
(*               writes, on its own.                                       *)
(***************************************************************************)
EXTENDS Integers, Sequences, FiniteSets, TLC

\* ------------------------------------------------------------------ bounds
\* runs of the poll effect started in one behaviour of the application
MaxRuns == 2
\* runs of the poll effect started in one behaviour of a lone ProcessingScreen
MaxOwnerRuns == 2
\* getSession requests one effect run issues
MaxPolls == 2
\* chat messages the user sends
MaxSends == 2
\* hide timers of the easter egg pending at once
MaxEggTimers == 2

\* session ids the backend assigns / the owner passes as a prop
Sids == {"s1", "s2"}
\* contents of a session object beyond id and status
Payloads == {"rA", "rB"}
\* HTTP statuses of a non-2xx answer
ErrorStatuses == {500}

\* ------------------------------------------------------- JavaScript values
\* JS null as the value of sessionId
NullId == "null"
\* JS null as the value of report / of the selected file
null == [null |-> TRUE]
\* JS undefined, the value of a property an object does not have
undefined == "undefined"

\* obj.f
Get(obj, f) == IF f \in DOMAIN obj THEN obj[f] ELSE undefined
\* truthiness of a string-or-undefined value, as `a || b` tests it
Truthy(v) == v # undefined /\ v # ""

VARIABLES
    screen,        \* App: useState('upload')
    sessionId,     \* App: useState(null)
    report,        \* App: useState(null)
    error,         \* App: useState('')
    shown,         \* the child AnimatePresence currently has mounted
    strictMode,    \* whether the build double-invokes effects (React.StrictMode, development)
    form,          \* state of the mounted UploadForm
    inst,          \* the mounted ProcessingScreen instance, 0 when none
    cancelledRef,  \* cancelledRef.current of every ProcessingScreen instance created
    runs,          \* the runs of the poll effect whose closure is still referenced
    nruns,         \* how many runs of the poll effect were started
    settled,       \* what poll did in the step just taken, when that step settled a request
    uploaded,      \* what handleSubmit did in the step just taken, when uploadVideo settled in it
    chat,          \* state of the ChatPanel (the mounted one while ResultsScreen is shown)
    sends,         \* the sendChat requests outstanding
    replied,       \* what handleSend did in the step just taken, when that step called or resumed it
    konamiIndex,   \* App: konamiIndex.current
    showEasterEgg, \* App: useState(false)
    hideTimers,    \* the setTimeout(() => setShowEasterEgg(false), 3000) pending
    tail,          \* how many of the keys pressed last are the first keys of KONAMI_CODE, at most
    keyed          \* what handleKeyDown did in the step just taken, when that step pressed a key

appVars == <<screen, sessionId, report, error>>
pollerVars == <<inst, cancelledRef, runs, nruns>>
chatVars == <<chat, sends>>
konamiVars == <<konamiIndex, showEasterEgg, hideTimers, tail, keyed>>
vars == <<screen, sessionId, report, error, shown, strictMode, form,
          inst, cancelledRef, runs, nruns, settled, uploaded, chat, sends, replied,
          konamiIndex, showEasterEgg, hideTimers, tail, keyed>>

\* ------------------------------------------------------------ api.js
\* A settled promise.
Resolved(v) == [rejected |-> FALSE, value |-> v]
Rejected(m) == [rejected |-> TRUE, message |-> m]

\* What fetch() produced: a network failure (fetch rejects), or an HTTP answer
\* whose body either parses as JSON or does not.
NetworkFailure == [kind |-> "network"]
HttpAnswer(ok, status, parses, json) ==
    [kind |-> "http", ok |-> ok, status |-> status, parses |-> parses, json |-> json]

\* res.json().catch(() => ({}))
jsonOrEmpty(res) == IF res.parses THEN res.json ELSE [empty |-> TRUE]

\* uploadVideo ignoring the body of a failed answer
uploadVideoStatusOnly(res) ==
    IF res.kind = "network" THEN Rejected("Failed to fetch")
    ELSE IF ~res.ok
    THEN Rejected("Upload failed (" \o ToString(res.status) \o ")")
    ELSE IF res.parses THEN Resolved(res.json)
    ELSE Rejected("Unexpected end of JSON input")

uploadVideo(res) ==
    IF res.kind = "network" THEN Rejected("Failed to fetch")
    ELSE IF ~res.ok
    THEN LET data == jsonOrEmpty(res) IN
         Rejected(IF Truthy(Get(data, "detail")) THEN Get(data, "detail")
                  ELSE "Upload failed (" \o ToString(res.status) \o ")")
    ELSE IF res.parses THEN Resolved(res.json)
    ELSE Rejected("Unexpected end of JSON input")

getSession(res) ==
    IF res.kind = "network" THEN Rejected("Failed to fetch")
    ELSE IF ~res.ok
    THEN LET data == jsonOrEmpty(res) IN
         Rejected(IF Truthy(Get(data, "detail")) THEN Get(data, "detail")
                  ELSE "Failed to fetch session (" \o ToString(res.status) \o ")")
    ELSE IF res.parses THEN Resolved(res.json)
    ELSE Rejected("Unexpected end of JSON input")

sendChat(res) ==
    IF res.kind = "network" THEN Rejected("Failed to fetch")
    ELSE IF ~res.ok
    THEN LET data == jsonOrEmpty(res) IN
         Rejected(IF Truthy(Get(data, "detail")) THEN Get(data, "detail")
                  ELSE "Chat failed (" \o ToString(res.status) \o ")")
    ELSE IF res.parses THEN Resolved(res.json)
    ELSE Rejected("Unexpected end of JSON input")

\* ------------------------------------------------------------ the backend
\* Error bodies the backend sends with a non-2xx answer.
ErrorBodies == {[detail |-> "Session not found"], [detail |-> ""], [error |-> "Internal Server Error"]}

FailureAnswers ==
    {NetworkFailure}
    \cup {HttpAnswer(FALSE, s, FALSE, null) : s \in ErrorStatuses}
    \cup {HttpAnswer(FALSE, s, TRUE, b) : s \in ErrorStatuses, b \in ErrorBodies}

Statuses == {"pending", "processing", "completed", "failed"}
NonTerminal == {"pending", "processing"}

\* A session object as GET /sessions/{id} returns it; the report fields (payload)
\* are there once the job has ended.
SessionObject(sid, st, p) == [session_id |-> sid, status |-> st, payload |-> p]

SessionObjects(sid) ==
    {SessionObject(sid, st, "none") : st \in NonTerminal}
    \cup {SessionObject(sid, st, p) : st \in Statuses \ NonTerminal, p \in Payloads}

GetSessionAnswers(sid) ==
    {HttpAnswer(TRUE, 200, TRUE, o) : o \in SessionObjects(sid)}
    \cup {HttpAnswer(TRUE, 200, FALSE, null)}
    \cup FailureAnswers

\* replies of the coach
Replies == {"Bend your knees"}

SendChatAnswers ==
    {HttpAnswer(TRUE, 200, TRUE, [reply |-> a]) : a \in Replies}
    \cup FailureAnswers

CreateSessionAnswers ==
    {HttpAnswer(TRUE, 201, TRUE, [session_id |-> sid, status |-> "pending"]) : sid \in Sids}
    \cup FailureAnswers

\* ------------------------------------------------- UploadForm.jsx
\* 100 MB, the largest file validateFile accepts
MAX_SIZE_MB == 100
ALLOWED_EXTENSIONS == {".mp4", ".mov", ".avi", ".mkv", ".webm"}

\* String.prototype.toLowerCase on the name segments used here
toLowerCase(s) ==
    CASE s = "MP4" -> "mp4"
      [] s = "MOV" -> "mov"
      [] OTHER -> s

\* A File: its name split at '.', and its size in bytes.
Files ==
    { [name |-> <<"wave", "MP4">>, size |-> 1048576],
      [name |-> <<"surf", "mov">>, size |-> 104857600],
      [name |-> <<"big", "mp4">>, size |-> 104857601],
      [name |-> <<"notes", "txt">>, size |-> 10] }

\* validateFile: null when the file is accepted, else the message shown
validateFile(f) ==
    LET ext == "." \o toLowerCase(f.name[Len(f.name)]) IN
    IF ext \notin ALLOWED_EXTENSIONS THEN "Unsupported format"
    ELSE IF f.size > MAX_SIZE_MB * 1024 * 1024 THEN "File too large"
    ELSE NullId

\* useState initial values of UploadForm. picked is the File last given to handleFile,
\* req the files of the uploadVideo calls that are outstanding.
FreshForm == [file |-> null, picked |-> null, uploading |-> FALSE, error |-> "", req |-> <<>>]

\* handleFile showing the validation message but keeping the file selected before
handleFileKeepsSelection(fm, f) ==
    IF validateFile(f) # NullId
    THEN [fm EXCEPT !.error = validateFile(f), !.picked = f]
    ELSE [fm EXCEPT !.error = "", !.file = f, !.picked = f]

\* handleFile, lines 50-59
handleFile(fm, f) ==
    IF validateFile(f) # NullId
    THEN [fm EXCEPT !.error = validateFile(f), !.file = null, !.picked = f]
    ELSE [fm EXCEPT !.error = "", !.file = f, !.picked = f]

\* a submit that ignores the upload in progress
submitIgnoredWithoutFile(fm) == fm.file = null

\* a submit does nothing: the submit button is disabled (line 275: !file || uploading),
\* and handleSubmit returns when there is no file (line 86)
submitIgnored(fm) == fm.file = null \/ fm.uploading

\* handleSubmit, lines 88-92: the state updates and the uploadVideo call
submitAccepted(fm) ==
    [fm EXCEPT !.uploading = TRUE, !.error = "", !.req = Append(@, fm.file)]

\* handleSubmit, line 93: uploadVideo resolved (onSessionCreated is the caller's part)
uploadResolved(fm) == [fm EXCEPT !.req = Tail(@)]

\* the catch block without setUploading(false)
uploadRejectedStaysUploading(fm, message) ==
    [fm EXCEPT !.error = message, !.req = Tail(@)]

\* handleSubmit, lines 94-97: uploadVideo rejected with an error of this message
uploadRejected(fm, message) ==
    [fm EXCEPT !.error = message, !.uploading = FALSE, !.req = Tail(@)]

\* ------------------------------------------------- ChatPanel.jsx
\* what the user may type into the chat input
Inputs == {"  ", " hi "}

\* String.prototype.trim on those
trim(s) ==
    CASE s = "  " -> ""
      [] s = " hi " -> "hi"
      [] OTHER -> s

\* the sessionId prop and the useState initial values of ChatPanel. inst numbers the
\* ChatPanel instances, sent counts the messages sent so far, by this one and the
\* ones before it.
FreshChat(i, sid, n) ==
    [inst |-> i, sessionId |-> sid, messages |-> <<>>, input |-> "", loading |-> FALSE,
     error |-> "", sent |-> n]

\* handleSend returning early only while a send is outstanding
sendIgnoredWhenLoading(c) == c.loading

\* handleSend, lines 28-29: the call returns without doing anything
sendIgnored(c) == trim(c.input) = "" \/ c.loading

\* handleSend appending the input as typed
sendAcceptedUntrimmed(c) ==
    [c EXCEPT !.input = "",
              !.error = "",
              !.messages = Append(@, [role |-> "user", content |-> c.input]),
              !.loading = TRUE,
              !.sent = @ + 1]

\* handleSend, lines 31-34: the state updates before the request
sendAccepted(c) ==
    [c EXCEPT !.input = "",
              !.error = "",
              !.messages = Append(@, [role |-> "user", content |-> trim(c.input)]),
              !.loading = TRUE,
              !.sent = @ + 1]

\* handleSend putting the reply in front of the history
sendResolvedPrepends(c, data) ==
    [c EXCEPT !.messages = <<[role |-> "assistant", content |-> data.reply]>> \o @,
              !.loading = FALSE]

\* handleSend, lines 37-41 and 44-46: sendChat resolved with data
sendResolved(c, data) ==
    [c EXCEPT !.messages = Append(@, [role |-> "assistant", content |-> data.reply]),
              !.loading = FALSE]

\* handleSend taking the user's message back when the request fails
sendRejectedRollsBack(c, message) ==
    [c EXCEPT !.messages = SubSeq(@, 1, Len(@) - 1),
              !.error = message,
              !.loading = FALSE]

\* handleSend with setLoading(false) on the success path only
sendRejectedStaysLoading(c, message) ==
    [c EXCEPT !.error = message]

\* handleSend, lines 42-46: sendChat rejected with an error of this message
sendRejected(c, message) ==
    [c EXCEPT !.error = message, !.loading = FALSE]

\* --------------------------------------------- ProcessingScreen.jsx
FailedMessage == "Processing failed. Please try again with a different video."

\* One run of the poll effect: the closure's sessionId, the instance whose
\* cancelledRef it reads, and where its poll chain stands:
\*   "initial"  initialDelay is pending        "timer"  an interval timer is pending
\*   "request"  awaiting getSession            "done"   the chain returned
\*   "cleared"  initialDelay was cleared before it fired
\* polls counts the requests issued, fired the callbacks invoked, cleaned tells
\* whether the run's cleanup has run.
NewRun(i, sid) ==
    [inst |-> i, sid |-> sid, st |-> "initial", polls |-> 0, fired |-> 0, cleaned |-> FALSE]

\* poll, line 32: the check before the request is issued
pollStart(cancelled) == IF cancelled THEN "done" ELSE "request"

\* pollSettled with the `return` after onComplete(data) missing
pollSettledNoReturnAfterComplete(cancelled, outcome) ==
    IF outcome.rejected
    THEN [cb |-> IF ~cancelled THEN <<[fn |-> "onError", arg |-> outcome.message]>> ELSE <<>>,
          next |-> FALSE]
    ELSE IF cancelled THEN [cb |-> <<>>, next |-> FALSE]
    ELSE IF outcome.value.status = "completed"
    THEN [cb |-> <<[fn |-> "onComplete", arg |-> outcome.value]>>, next |-> TRUE]
    ELSE IF outcome.value.status = "failed"
    THEN [cb |-> <<[fn |-> "onError", arg |-> FailedMessage]>>, next |-> FALSE]
    ELSE [cb |-> <<>>, next |-> TRUE]

\* pollSettled taking every status but processing and completed for a failure
pollSettledPendingIsFailure(cancelled, outcome) ==
    IF outcome.rejected
    THEN [cb |-> IF ~cancelled THEN <<[fn |-> "onError", arg |-> outcome.message]>> ELSE <<>>,
          next |-> FALSE]
    ELSE IF cancelled THEN [cb |-> <<>>, next |-> FALSE]
    ELSE IF outcome.value.status = "completed"
    THEN [cb |-> <<[fn |-> "onComplete", arg |-> outcome.value]>>, next |-> FALSE]
    ELSE IF outcome.value.status # "processing"
    THEN [cb |-> <<[fn |-> "onError", arg |-> FailedMessage]>>, next |-> FALSE]
    ELSE [cb |-> <<>>, next |-> TRUE]

\* pollSettled passing what the failed answer holds to onError
pollSettledFailedReportsAnswer(cancelled, outcome) ==
    IF outcome.rejected
    THEN [cb |-> IF ~cancelled THEN <<[fn |-> "onError", arg |-> outcome.message]>> ELSE <<>>,
          next |-> FALSE]
    ELSE IF cancelled THEN [cb |-> <<>>, next |-> FALSE]
    ELSE IF outcome.value.status = "completed"
    THEN [cb |-> <<[fn |-> "onComplete", arg |-> outcome.value]>>, next |-> FALSE]
    ELSE IF outcome.value.status = "failed"
    THEN [cb |-> <<[fn |-> "onError", arg |-> outcome.value.payload]>>, next |-> FALSE]
    ELSE [cb |-> <<>>, next |-> TRUE]

\* pollSettled returning on a failed answer without calling onError
pollSettledSilentOnFailed(cancelled, outcome) ==
    IF outcome.rejected
    THEN [cb |-> IF ~cancelled THEN <<[fn |-> "onError", arg |-> outcome.message]>> ELSE <<>>,
          next |-> FALSE]
    ELSE IF cancelled THEN [cb |-> <<>>, next |-> FALSE]
    ELSE IF outcome.value.status = "completed"
    THEN [cb |-> <<[fn |-> "onComplete", arg |-> outcome.value]>>, next |-> FALSE]
    ELSE IF outcome.value.status = "failed"
    THEN [cb |-> <<>>, next |-> FALSE]
    ELSE [cb |-> <<>>, next |-> TRUE]

\* pollSettled whose catch block polls again instead of reporting
pollSettledRetriesOnError(cancelled, outcome) ==
    IF outcome.rejected
    THEN [cb |-> <<>>, next |-> ~cancelled]
    ELSE IF cancelled THEN [cb |-> <<>>, next |-> FALSE]
    ELSE IF outcome.value.status = "completed"
    THEN [cb |-> <<[fn |-> "onComplete", arg |-> outcome.value]>>, next |-> FALSE]
    ELSE IF outcome.value.status = "failed"
    THEN [cb |-> <<[fn |-> "onError", arg |-> FailedMessage]>>, next |-> FALSE]
    ELSE [cb |-> <<>>, next |-> TRUE]

\* poll, lines 35-54, once `await getSession(sessionId)` has settled: the callback
\* invoked (at most one) and whether the next poll is scheduled
pollSettled(cancelled, outcome) ==
    IF outcome.rejected
    THEN [cb |-> IF ~cancelled THEN <<[fn |-> "onError", arg |-> outcome.message]>> ELSE <<>>,
          next |-> FALSE]
    ELSE IF cancelled THEN [cb |-> <<>>, next |-> FALSE]
    ELSE IF outcome.value.status = "completed"
    THEN [cb |-> <<[fn |-> "onComplete", arg |-> outcome.value]>>, next |-> FALSE]
    ELSE IF outcome.value.status = "failed"
    THEN [cb |-> <<[fn |-> "onError", arg |-> FailedMessage]>>, next |-> FALSE]
    ELSE [cb |-> <<>>, next |-> TRUE]

\* The poller's state as one value, for the operators below.
Poller == [cancelledRef |-> cancelledRef, runs |-> runs, nruns |-> nruns]

\* The effect body, lines 29-57, run on instance i with prop sessionId = sid
effect(P, i, sid) ==
    [cancelledRef |-> [P.cancelledRef EXCEPT ![i] = FALSE],
     runs |-> P.runs @@ ((P.nruns + 1) :> NewRun(i, sid)),
     nruns |-> P.nruns + 1]

\* cleanup without clearTimeout(initialDelay)
cleanupKeepsTimer(P, r) ==
    [cancelledRef |-> [P.cancelledRef EXCEPT ![P.runs[r].inst] = TRUE],
     runs |-> [P.runs EXCEPT ![r].cleaned = TRUE],
     nruns |-> P.nruns]

\* The cleanup the effect run r returned, lines 59-62
cleanup(P, r) ==
    [cancelledRef |-> [P.cancelledRef EXCEPT ![P.runs[r].inst] = TRUE],
     runs |-> [P.runs EXCEPT ![r].cleaned = TRUE,
                             ![r].st = IF @ = "initial" THEN "cleared" ELSE @],
     nruns |-> P.nruns]

\* A run whose cleanup has run and whose chain has no timer pending and no request
\* outstanding can never act again: nothing references its closure, it is dropped.
Dead(run) == run.cleaned /\ run.st \in {"done", "cleared"}
collect(P) ==
    [P EXCEPT !.runs = [r \in {x \in DOMAIN P.runs : ~Dead(P.runs[x])} |-> P.runs[r]]]

\* Mounting a new ProcessingScreen instance: useRef(false), then the effect; under
\* StrictMode in a development build React runs effect, cleanup, effect.
mount(P, sid) ==
    LET i == Len(P.cancelledRef) + 1
        P0 == [P EXCEPT !.cancelledRef = Append(P.cancelledRef, FALSE)]
        P1 == effect(P0, i, sid)
    IN IF strictMode THEN effect(cleanup(P1, P1.nruns), i, sid) ELSE P1

\* effect runs one mount starts
RunsPerMount == IF strictMode THEN 2 ELSE 1

\* The latest effect run: the one whose cleanup the mounted instance holds.
CurrentRun == nruns

\* no request settled in the step just taken
NoEvent == [none |-> TRUE]

\* ------------------------------------------------------------- App
\* handleSessionCreated leaving the error banner as it was
handleSessionCreatedKeepsError(id) ==
    /\ sessionId' = id
    /\ screen' = "processing"
    /\ UNCHANGED <<error, report>>

handleSessionCreated(id) ==
    /\ sessionId' = id
    /\ screen' = "processing"
    /\ error' = ""
    /\ UNCHANGED report

\* handleComplete storing a copy of the answer with its status rewritten
handleCompleteRewritesStatus(data) ==
    /\ report' = [data EXCEPT !.status = "done"]
    /\ screen' = "results"
    /\ UNCHANGED <<sessionId, error>>

handleComplete(data) ==
    /\ report' = data
    /\ screen' = "results"
    /\ UNCHANGED <<sessionId, error>>

\* handleError going back to upload without storing the message
handleErrorDropsMessage(msg) ==
    /\ error' = ""
    /\ screen' = "upload"
    /\ UNCHANGED <<sessionId, report>>

handleError(msg) ==
    /\ error' = msg
    /\ screen' = "upload"
    /\ UNCHANGED <<sessionId, report>>

\* handleReset leaving the session id in place
handleResetKeepsSession ==
    /\ screen' = "upload"
    /\ report' = null
    /\ error' = ""
    /\ UNCHANGED sessionId

\* handleReset leaving the report in place
handleResetKeepsReport ==
    /\ screen' = "upload"
    /\ sessionId' = NullId
    /\ error' = ""
    /\ UNCHANGED report

\* handleReset going back to the processing screen
handleResetToProcessing ==
    /\ screen' = "processing"
    /\ sessionId' = NullId
    /\ report' = null
    /\ error' = ""

handleReset ==
    /\ screen' = "upload"
    /\ sessionId' = NullId
    /\ report' = null
    /\ error' = ""

\* The child App's render asks AnimatePresence to show: one of the three motion.divs,
\* or nothing (screen === 'results' with no report).
Wanted == IF screen = "results" /\ report = null THEN "none" ELSE screen

\* ProcessingScreen invoking the props App passed it: onComplete = handleComplete,
\* onError = handleError. cb holds at most one call.
Invoke(cb) ==
    IF cb = <<>> THEN UNCHANGED appVars
    ELSE IF cb[1].fn = "onComplete" THEN handleComplete(cb[1].arg)
    ELSE handleError(cb[1].arg)

Init ==
    /\ screen = "upload"
    /\ sessionId = NullId
    /\ report = null
    /\ error = ""
    /\ shown = "upload"
    /\ strictMode \in BOOLEAN
    /\ form = FreshForm
    /\ inst = 0
    /\ cancelledRef = <<>>
    /\ runs = <<>>
    /\ nruns = 0
    /\ settled = NoEvent
    /\ uploaded = NoEvent
    /\ chat = FreshChat(0, NullId, 0)
    /\ sends = {}
    /\ replied = NoEvent
    /\ konamiIndex = 0
    /\ showEasterEgg = FALSE
    /\ hideTimers = 0
    /\ tail = 0
    /\ keyed = NoEvent

\* the poller's variables become P, unreferenced runs dropped
SetPoller(P) ==
    /\ cancelledRef' = collect(P).cancelledRef
    /\ runs' = collect(P).runs
    /\ nruns' = collect(P).nruns

\* ---- UploadForm events
\* handleFile, from the file input or a drop
SelectFile(f) ==
    /\ shown = "upload"
    /\ form' = handleFile(form, f)
    /\ settled' = NoEvent
    /\ UNCHANGED konamiVars
    /\ uploaded' = NoEvent
    /\ replied' = NoEvent
    /\ UNCHANGED chatVars
    /\ UNCHANGED <<appVars, shown, strictMode, pollerVars>>

\* handleSubmit up to its await; the submit button is enabled (!file || uploading is false)
Submit ==
    /\ shown = "upload"
    /\ ~submitIgnored(form)
    /\ form' = submitAccepted(form)
    /\ settled' = NoEvent
    /\ UNCHANGED konamiVars
    /\ uploaded' = NoEvent
    /\ replied' = NoEvent
    /\ UNCHANGED chatVars
    /\ UNCHANGED <<appVars, shown, strictMode, pollerVars>>

\* handleSubmit after its await: uploadVideo settled
UploadSettles(res) ==
    /\ form.req # <<>>
    /\ LET o == uploadVideo(res) IN
       IF o.rejected
       THEN /\ form' = uploadRejected(form, o.message)
            /\ UNCHANGED appVars
       ELSE /\ form' = uploadResolved(form)
            /\ handleSessionCreated(o.value.session_id)
    /\ settled' = NoEvent
    /\ UNCHANGED konamiVars
    /\ uploaded' = [file |-> Head(form.req), answer |-> res, outcome |-> uploadVideo(res)]
    /\ replied' = NoEvent
    /\ UNCHANGED chatVars
    /\ UNCHANGED <<shown, strictMode, pollerVars>>

\* the dismiss button of the error banner
DismissError ==
    /\ shown = "upload"
    /\ error # ""
    /\ error' = ""
    /\ settled' = NoEvent
    /\ UNCHANGED konamiVars
    /\ uploaded' = NoEvent
    /\ replied' = NoEvent
    /\ UNCHANGED chatVars
    /\ UNCHANGED <<screen, sessionId, report, shown, strictMode, form, pollerVars>>

\* ---- AnimatePresence mode="wait": the shown child leaves, then the wanted one enters
ExitComplete ==
    /\ shown # "none"
    /\ shown # Wanted
    /\ shown' = "none"
    /\ form' = FreshForm
    /\ IF shown = "processing"
       THEN SetPoller(cleanup(Poller, CurrentRun)) /\ inst' = 0
       ELSE UNCHANGED pollerVars
    /\ chat' = FreshChat(chat.inst, NullId, chat.sent)
    /\ settled' = NoEvent
    /\ UNCHANGED konamiVars
    /\ uploaded' = NoEvent
    /\ replied' = NoEvent
    /\ UNCHANGED sends
    /\ UNCHANGED <<appVars, strictMode>>

Enter ==
    /\ shown = "none"
    /\ Wanted # "none"
    /\ shown' = Wanted
    /\ form' = FreshForm
    /\ IF Wanted = "processing"
       THEN /\ nruns + RunsPerMount <= MaxRuns
            /\ SetPoller(mount(Poller, sessionId))
            /\ inst' = Len(cancelledRef) + 1
       ELSE UNCHANGED pollerVars
    /\ chat' = IF Wanted = "results" THEN FreshChat(chat.inst + 1, report.session_id, chat.sent) ELSE chat
    /\ settled' = NoEvent
    /\ UNCHANGED konamiVars
    /\ uploaded' = NoEvent
    /\ replied' = NoEvent
    /\ UNCHANGED sends
    /\ UNCHANGED <<appVars, strictMode>>

\* ---- ProcessingScreen
\* a pending timer (initialDelay or an interval timer) of run r fires: poll starts
TimerFires(r) ==
    /\ runs[r].st \in {"initial", "timer"}
    /\ LET nxt == pollStart(cancelledRef[runs[r].inst]) IN
       /\ nxt = "request" => runs[r].polls < MaxPolls
       /\ SetPoller([Poller EXCEPT !.runs[r].st = nxt,
                                   !.runs[r].polls = IF nxt = "request" THEN @ + 1 ELSE @])
    /\ settled' = NoEvent
    /\ UNCHANGED konamiVars
    /\ uploaded' = NoEvent
    /\ replied' = NoEvent
    /\ UNCHANGED chatVars
    /\ UNCHANGED <<appVars, shown, strictMode, form, inst>>

\* what poll of run r does when its request settles with fetch result res
Decision(r, res) == pollSettled(cancelledRef[runs[r].inst], getSession(res))

\* the poller after the request of run r settled with res
Settled(r, res) ==
    [Poller EXCEPT !.runs[r].st = IF Decision(r, res).next THEN "timer" ELSE "done",
                   !.runs[r].fired = @ + Len(Decision(r, res).cb)]

\* the record of that step: the run, whether its cleanup had run, the outcome of
\* getSession and the callback invoked
Event(r, res) ==
    [run |-> r, sid |-> runs[r].sid, cleaned |-> runs[r].cleaned,
     answer |-> res, outcome |-> getSession(res), cb |-> Decision(r, res).cb, next |-> Decision(r, res).next]

\* the outstanding getSession of run r settles, in the application
GetSessionSettles(r, res) ==
    /\ runs[r].st = "request"
    /\ SetPoller(Settled(r, res))
    /\ settled' = Event(r, res)
    /\ UNCHANGED konamiVars
    /\ uploaded' = NoEvent
    /\ replied' = NoEvent
    /\ UNCHANGED chatVars
    /\ Invoke(Decision(r, res).cb)
    /\ UNCHANGED <<shown, strictMode, form, inst>>

\* ---- ResultsScreen
\* either "Analyze another" button
Reset ==
    /\ shown = "results"
    /\ handleReset
    /\ settled' = NoEvent
    /\ UNCHANGED konamiVars
    /\ uploaded' = NoEvent
    /\ replied' = NoEvent
    /\ UNCHANGED chatVars
    /\ UNCHANGED <<shown, strictMode, form, pollerVars>>

\* ---- ChatPanel (rendered by ResultsScreen with sessionId = report.session_id)
ChatMounted == shown = "results"

\* onChange of the chat input, which is disabled while loading
TypeInput(text) ==
    /\ ChatMounted
    /\ ~chat.loading
    /\ chat' = [chat EXCEPT !.input = text]
    /\ settled' = NoEvent
    /\ UNCHANGED konamiVars
    /\ uploaded' = NoEvent
    /\ replied' = NoEvent
    /\ UNCHANGED <<appVars, shown, strictMode, form, pollerVars, sends>>

\* handleSend up to its await, called from the form's submit or the Enter key
Send ==
    /\ ChatMounted
    /\ IF sendIgnored(chat)
       THEN UNCHANGED chatVars
       ELSE /\ chat.sent < MaxSends
            /\ chat' = sendAccepted(chat)
            /\ sends' = sends \cup {[inst |-> chat.inst, sid |-> chat.sessionId,
                                      text |-> trim(chat.input)]}
    /\ settled' = NoEvent
    /\ UNCHANGED konamiVars
    /\ uploaded' = NoEvent
    /\ replied' = [phase |-> "call", ignored |-> sendIgnored(chat)]
    /\ UNCHANGED <<appVars, shown, strictMode, form, pollerVars>>

\* chat state shared by all ChatPanel instances: whichever is mounted gets the updates
UpdatesMountedPanel(req) == ChatMounted

\* the setMessages / setError / setLoading of the handleSend that issued req belong to
\* the useState of its own ChatPanel instance: they take effect while that instance
\* is mounted
UpdatesOwnPanel(req) == ChatMounted /\ chat.inst = req.inst

\* handleSend after its await: the sendChat of req settled; the state updates of an
\* unmounted ChatPanel are dropped
SendSettles(req, res) ==
    /\ req \in sends
    /\ sends' = sends \ {req}
    /\ LET o == sendChat(res)
           mounted == UpdatesOwnPanel(req)
       IN /\ chat' = IF ~mounted THEN chat
                     ELSE IF o.rejected THEN sendRejected(chat, o.message)
                     ELSE sendResolved(chat, o.value)
          /\ replied' = [phase |-> "settle", req |-> req, answer |-> res, outcome |-> o,
                        mounted |-> mounted]
    /\ settled' = NoEvent
    /\ UNCHANGED konamiVars
    /\ uploaded' = NoEvent
    /\ UNCHANGED <<appVars, shown, strictMode, form, pollerVars>>

\* the dismiss button of the chat error
DismissChatError ==
    /\ ChatMounted
    /\ chat.error # ""
    /\ chat' = [chat EXCEPT !.error = ""]
    /\ settled' = NoEvent
    /\ UNCHANGED konamiVars
    /\ uploaded' = NoEvent
    /\ replied' = NoEvent
    /\ UNCHANGED <<appVars, shown, strictMode, form, pollerVars, sends>>

Next ==
    \/ \E f \in Files : SelectFile(f)
    \/ Submit
    \/ \E res \in CreateSessionAnswers : UploadSettles(res)
    \/ DismissError
    \/ ExitComplete
    \/ Enter
    \/ \E r \in DOMAIN runs : TimerFires(r)
    \/ \E r \in DOMAIN runs : \E res \in GetSessionAnswers(runs[r].sid) : GetSessionSettles(r, res)
    \/ Reset
    \/ \E text \in Inputs : TypeInput(text)
    \/ Send
    \/ \E req \in sends : \E res \in SendChatAnswers : SendSettles(req, res)
    \/ DismissChatError

Spec == Init /\ [][Next]_vars

\* The browser runs every timer that was set and not cleared, and every fetch settles
\* (the transport answers or fails).
TimersFire == WF_vars(\E r \in DOMAIN runs : TimerFires(r))
RequestsSettle ==
    WF_vars(\E r \in DOMAIN runs : \E res \in GetSessionAnswers(runs[r].sid) :
                GetSessionSettles(r, res))

SpecLive == Spec /\ TimersFire /\ RequestsSettle

\* ---- ProcessingScreen under an arbitrary owner
\* the owner renders a new ProcessingScreen with sessionId = sid
OwnerMounts(sid) ==
    /\ inst = 0
    /\ nruns + RunsPerMount <= MaxOwnerRuns
    /\ SetPoller(mount(Poller, sid))
    /\ inst' = Len(cancelledRef) + 1
    /\ settled' = NoEvent
    /\ UNCHANGED konamiVars
    /\ uploaded' = NoEvent
    /\ replied' = NoEvent
    /\ UNCHANGED chatVars
    /\ UNCHANGED <<appVars, shown, strictMode, form>>

\* the owner re-renders it with a changed dependency (another sessionId, or the same
\* sessionId and another callback): React runs the cleanup, then the effect again
OwnerChangesProps(sid) ==
    /\ inst # 0
    /\ nruns < MaxOwnerRuns
    /\ SetPoller(effect(cleanup(Poller, CurrentRun), inst, sid))
    /\ settled' = NoEvent
    /\ UNCHANGED konamiVars
    /\ uploaded' = NoEvent
    /\ replied' = NoEvent
    /\ UNCHANGED chatVars
    /\ UNCHANGED <<appVars, shown, strictMode, form, inst>>

\* the owner unmounts it
OwnerUnmounts ==
    /\ inst # 0
    /\ SetPoller(cleanup(Poller, CurrentRun))
    /\ inst' = 0
    /\ settled' = NoEvent
    /\ UNCHANGED konamiVars
    /\ uploaded' = NoEvent
    /\ replied' = NoEvent
    /\ UNCHANGED chatVars
    /\ UNCHANGED <<appVars, shown, strictMode, form>>

\* the outstanding getSession of run r settles; the owner's callbacks are recorded only
RequestSettles(r, res) ==
    /\ runs[r].st = "request"
    /\ SetPoller(Settled(r, res))
    /\ settled' = Event(r, res)
    /\ UNCHANGED konamiVars
    /\ uploaded' = NoEvent
    /\ replied' = NoEvent
    /\ UNCHANGED chatVars
    /\ UNCHANGED <<appVars, shown, strictMode, form, inst>>

NextPoller ==
    \/ \E sid \in Sids : OwnerMounts(sid)
    \/ \E sid \in Sids : OwnerChangesProps(sid)
    \/ OwnerUnmounts
    \/ \E r \in DOMAIN runs : TimerFires(r)
    \/ \E r \in DOMAIN runs : \E res \in GetSessionAnswers(runs[r].sid) : RequestSettles(r, res)

SpecPoller == Init /\ [][NextPoller]_vars

\* ---- App's keydown listener
KONAMI_CODE ==
    <<"ArrowUp", "ArrowUp", "ArrowDown", "ArrowDown",
      "ArrowLeft", "ArrowRight", "ArrowLeft", "ArrowRight",
      "KeyB", "KeyA">>

\* e.code of the keys pressed: the keys of the code and one other
Keys == {KONAMI_CODE[i] : i \in DOMAIN KONAMI_CODE} \cup {"KeyX"}

\* the last n elements of s
Last(s, n) == SubSeq(s, Len(s) - n + 1, Len(s))

\* tail after key k: the longest end of (the t keys matched so far, then k) that is
\* a beginning of KONAMI_CODE. It is Len(KONAMI_CODE) exactly when the keys pressed
\* last are the whole code.
TailAfter(t, k) ==
    LET typed == Append(SubSeq(KONAMI_CODE, 1, t), k)
        fits == {n \in 0..Len(KONAMI_CODE) :
                    n <= Len(typed) /\ Last(typed, n) = SubSeq(KONAMI_CODE, 1, n)}
    IN CHOOSE n \in fits : \A m \in fits : m <= n

\* handleKeyDown with konamiIndex.current = i and e.code = k: the new
\* konamiIndex.current and whether the easter egg is shown
konamiNext(i, k) ==
    IF k = KONAMI_CODE[i + 1]
    THEN IF i + 1 = Len(KONAMI_CODE) THEN [index |-> 0, egg |-> TRUE]
         ELSE [index |-> i + 1, egg |-> FALSE]
    ELSE [index |-> 0, egg |-> FALSE]

\* the user presses key k
KeyDown(k) ==
    /\ konamiNext(konamiIndex, k).egg => hideTimers < MaxEggTimers
    /\ konamiIndex' = konamiNext(konamiIndex, k).index
    /\ showEasterEgg' = (konamiNext(konamiIndex, k).egg \/ showEasterEgg)
    /\ hideTimers' = IF konamiNext(konamiIndex, k).egg THEN hideTimers + 1 ELSE hideTimers
    /\ tail' = TailAfter(tail, k)
    /\ keyed' = [key |-> k, egg |-> konamiNext(konamiIndex, k).egg]
    /\ settled' = NoEvent
    /\ uploaded' = NoEvent
    /\ replied' = NoEvent
    /\ UNCHANGED <<appVars, shown, strictMode, form, pollerVars, chatVars>>

\* a hide timer fires, 3 s after the easter egg was shown
HideTimerFires ==
    /\ hideTimers > 0
    /\ hideTimers' = hideTimers - 1
    /\ showEasterEgg' = FALSE
    /\ keyed' = NoEvent
    /\ settled' = NoEvent
    /\ uploaded' = NoEvent
    /\ replied' = NoEvent
    /\ UNCHANGED <<konamiIndex, tail>>
    /\ UNCHANGED <<appVars, shown, strictMode, form, pollerVars, chatVars>>

NextKonami ==
    \/ \E k \in Keys : KeyDown(k)
    \/ HideTimerFires

SpecKonami == Init /\ [][NextKonami]_vars

\* ------------------------------------------------------------ properties
\* what the step just taken settled
JustSettled == settled # NoEvent
SettledOk == JustSettled /\ ~settled.outcome.rejected
SettledStatus(st) == SettledOk /\ settled.outcome.value.status = st
SettledRejected == JustSettled /\ settled.outcome.rejected
Called(fn) == JustSettled /\ settled.cb # <<>> /\ settled.cb[1].fn = fn

\* a run that can still issue a request or invoke a callback
Live(r) == runs[r].st \in {"initial", "timer", "request"} /\ ~cancelledRef[runs[r].inst]

\* while ProcessingScreen is mounted by App its sessionId prop is App's sessionId, so
\* App never re-runs the poll effect: Next needs no step for a changed dependency
PropsStable == inst # 0 => CurrentRun \in DOMAIN runs /\ runs[CurrentRun].sid = sessionId

\* C1: once the cleanup of an effect run has run (unmount, or a re-run of the effect),
\* no poll of that run invokes onComplete or onError, whenever its request settles.
C1_NoCallbackAfterCancel == JustSettled /\ settled.cleaned => settled.cb = <<>>

C3_AtMostOneLivePoller == Cardinality({r \in DOMAIN runs : Live(r)}) <= 1

C3_Witness ==
    /\ Len(cancelledRef) >= 2
    /\ \E r \in DOMAIN runs : Live(r) /\ runs[r].st = "request"

\* C4: a poll answered pending or processing invokes no callback, schedules the next
\* poll and leaves the lifecycle in processing; the lifecycle leaves processing only
\* in a step where a poll invokes a callback (there is no timeout).
C4_NoCallbackUntilTerminal ==
    [][/\ (SettledStatus("pending") \/ SettledStatus("processing"))' =>
            settled'.cb = <<>> /\ settled'.next /\ screen' = "processing"
       /\ screen = "processing" /\ screen' # "processing" =>
            /\ settled'.cb # <<>>
            /\ settled'.outcome.rejected \/ settled'.outcome.value.status \in {"completed", "failed"}]_vars

C4_Witness ==
    /\ SettledStatus("pending") \/ SettledStatus("processing")
    /\ runs[settled.run].polls >= 2
    /\ screen = "processing"

\* C5: a completed answer to an uncancelled poll invokes onComplete once, with the
\* session object received, and ends the chain: no timer, no further request.
C5_CompleteOnceThenStop ==
    [][/\ (SettledStatus("completed") /\ ~settled.cleaned)' =>
            /\ settled'.cb = <<[fn |-> "onComplete", arg |-> settled'.outcome.value]>>
            /\ ~settled'.next
            /\ settled'.run \in DOMAIN runs' =>
                   runs'[settled'.run].st = "done" /\ runs'[settled'.run].fired = 1
       /\ \A r \in DOMAIN runs \cap DOMAIN runs' :
            runs[r].st = "done" =>
                /\ runs'[r].st = "done"
                /\ runs'[r].polls = runs[r].polls
                /\ runs'[r].fired = runs[r].fired]_vars

C5_Witness ==
    /\ SettledStatus("completed")
    /\ ~settled.cleaned
    /\ settled.run \in DOMAIN runs
    /\ runs[settled.run].fired = 1

\* C6: a failed answer to an uncancelled poll invokes onError once with the fixed
\* message, whatever else the answer holds, never onComplete, and ends the chain.
C6_FailedFixedMessage ==
    (SettledStatus("failed") /\ ~settled.cleaned) =>
        /\ settled.cb = <<[fn |-> "onError", arg |-> FailedMessage]>>
        /\ ~settled.next
        /\ settled.run \in DOMAIN runs =>
               runs[settled.run].st = "done" /\ runs[settled.run].fired = 1

C6_Witness ==
    /\ SettledStatus("failed")
    /\ ~settled.cleaned
    /\ settled.outcome.value.payload = "rB"
    /\ Called("onError")

\* C7: a getSession that fails at transport level invokes onError once with the
\* error's message and ends the chain: no retry, no next poll.
C7_TransportFailureStops ==
    (SettledRejected /\ ~settled.cleaned) =>
        /\ settled.cb = <<[fn |-> "onError", arg |-> settled.outcome.message]>>
        /\ ~settled.next
        /\ settled.run \in DOMAIN runs =>
               runs[settled.run].st = "done" /\ runs[settled.run].fired = 1

C7_Witness ==
    /\ SettledRejected
    /\ ~settled.cleaned
    /\ settled.outcome.message = "Session not found"
    /\ Called("onError")

\* C8: never two getSession requests outstanding for one session id, nor a request
\* and a pending poll timer: a next poll is scheduled only by a poll whose request
\* settled with a non-terminal status.
C8_PollsSerialized ==
    /\ \A sid \in Sids :
         Cardinality({r \in DOMAIN runs :
                        runs[r].sid = sid /\ runs[r].st \in {"initial", "timer", "request"}}) <= 1
    /\ JustSettled /\ settled.next =>
         SettledStatus("pending") \/ SettledStatus("processing")

C8_Witness ==
    \E r \in DOMAIN runs : runs[r].st = "request" /\ runs[r].polls >= 2

\* C9: after the cleanup of an effect run, a timer of that run that fires issues no
\* getSession request, and an answer that arrives schedules no next poll.
C9_CancelledRunIsInert ==
    [][/\ \A r \in DOMAIN runs \cap DOMAIN runs' :
            runs[r].cleaned /\ runs[r].st \in {"initial", "timer"} => runs'[r].st # "request"
       /\ (JustSettled /\ settled.cleaned)' => ~settled'.next]_vars

\* C10: the lifecycle starts in upload and moves only upload -> processing (session
\* created), processing -> results (onComplete), processing -> upload (onError) and
\* results -> upload (reset).
C10_LifecycleTransitions ==
    /\ screen = "upload"
    /\ [][screen' # screen =>
            \/ screen = "upload" /\ screen' = "processing" /\ sessionId' \in Sids
            \/ screen = "processing" /\ screen' = "results" /\ Called("onComplete")'
            \/ screen = "processing" /\ screen' = "upload" /\ Called("onError")'
            \/ screen = "results" /\ screen' = "upload" /\ report' = null]_vars

C10_Witness ==
    /\ screen = "upload"
    /\ sessionId = NullId
    /\ nruns >= 1

Uploaded == uploaded # NoEvent
SessionCreated == Uploaded /\ ~uploaded.outcome.rejected

\* C11: every step that clears the report or the session id (only handleReset does)
\* leaves screen = upload, sessionId = null, report = null and error = ''.
C11_ResetClearsEverything ==
    [][(report # null /\ report' = null) \/ (sessionId # NullId /\ sessionId' = NullId) =>
            /\ screen' = "upload"
            /\ sessionId' = NullId
            /\ report' = null
            /\ error' = ""]_vars

C11_Witness ==
    /\ shown = "results"
    /\ screen = "upload"
    /\ sessionId = NullId
    /\ report = null
    /\ error = ""

\* C12: an onError call moves processing to upload, stores the message and discards
\* the session id, so that no session id is held in upload after a failure.
C12_FailureDiscardsSession ==
    [][Called("onError")' =>
            /\ screen = "processing"
            /\ screen' = "upload"
            /\ error' = settled'.cb[1].arg
            /\ sessionId' = NullId]_vars

\* C13: a report is stored exactly while the lifecycle state is results.
C13_ReportIffResults == (report # null) <=> (screen = "results")

C13_Witness ==
    /\ screen = "results"
    /\ shown = "results"
    /\ report # null
    /\ report.status = "completed"

\* C14: a created session moves upload to processing, every non-terminal answer
\* leaves the application in processing with no report, and the completed answer
\* moves processing to results and stores the received object as it is.
C14_SuccessfulFlow ==
    [][/\ SessionCreated' => screen = "upload" /\ screen' = "processing" /\ report' = null
       /\ (\E st \in NonTerminal : SettledStatus(st)') =>
            screen = "processing" /\ UNCHANGED appVars /\ report = null
       /\ SettledStatus("completed")' =>
            /\ screen = "processing"
            /\ screen' = "results"
            /\ report' = settled'.outcome.value
       /\ screen' = "results" /\ screen # "results" => SettledStatus("completed")']_vars

C14_Witness ==
    /\ SettledStatus("completed")
    /\ runs[settled.run].polls >= 2
    /\ screen = "results"
    /\ report = settled.outcome.value
    /\ report.payload \in Payloads

\* C15: a failed answer while processing moves processing to upload, shows the fixed
\* failure message and stores no report.
C15_FailedPollReturnsToUpload ==
    [][SettledStatus("failed")' =>
            /\ screen = "processing"
            /\ screen' = "upload"
            /\ error' = FailedMessage
            /\ report' = null]_vars

C15_Witness ==
    /\ SettledStatus("failed")
    /\ shown = "processing"
    /\ screen = "upload"
    /\ error = FailedMessage
    /\ report = null

\* C16: onSessionCreated(id) is called only while screen = upload; it moves to
\* processing, stores id as sessionId and clears the error; only it stores a session
\* id, and every poll effect started is a live one for exactly sessionId.
C16_SessionCreatedStartsPoller ==
    [][/\ SessionCreated' =>
            /\ screen = "upload"
            /\ screen' = "processing"
            /\ sessionId' = uploaded'.outcome.value.session_id
            /\ error' = ""
       /\ sessionId' # sessionId /\ sessionId' # NullId => SessionCreated'
       /\ nruns' > nruns =>
            /\ screen = "processing"
            /\ \E n \in DOMAIN runs' :
                    n = nruns' /\ runs'[n].sid = sessionId /\ Live(n)'
            /\ \A r \in DOMAIN runs' : Live(r)' => r = nruns']_vars

C16_Witness ==
    /\ inst # 0
    /\ shown = "processing"
    /\ screen = "processing"
    /\ Live(CurrentRun)
    /\ runs[CurrentRun].sid = sessionId
    /\ runs[CurrentRun].st = "initial"
    /\ nruns = MaxRuns

\* handleSend was called in the step just taken / resumed in it on a mounted ChatPanel
SendCalled == replied # NoEvent /\ replied.phase = "call"
SendResumed == replied # NoEvent /\ replied.phase = "settle" /\ replied.mounted
UserMessage(text) == [role |-> "user", content |-> text]
AssistantMessage(text) == [role |-> "assistant", content |-> text]
InFlight(i) == {q \in sends : q.inst = i}
IsPrefix(s, t) == Len(s) <= Len(t) /\ SubSeq(t, 1, Len(s)) = s

\* a call of handleSend with empty trimmed text or while loading changes nothing, and
\* a request is issued only by a call made with non-empty text and no send outstanding
SendGuarded ==
    [][/\ SendCalled' /\ (trim(chat.input) = "" \/ chat.loading) => UNCHANGED <<chat, sends>>
       /\ sends' \ sends # {} =>
            /\ SendCalled'
            /\ trim(chat.input) # ""
            /\ ~chat.loading
            /\ InFlight(chat.inst) = {}]_vars

\* C17 as stated: an ignored send is a no-op, and at most one sendChat request is in
\* flight at any time.
C17_OneSendInFlight == SendGuarded /\ [](Cardinality(sends) <= 1)

\* C17: an ignored send is a no-op, and at most one sendChat request of each
\* ChatPanel is in flight at any time; while one is, the panel is loading.
C17_OneSendPerChatSession ==
    /\ SendGuarded
    /\ [](/\ \A q \in sends : Cardinality(InFlight(q.inst)) <= 1
          /\ ChatMounted /\ InFlight(chat.inst) # {} => chat.loading)

C17_Witness ==
    /\ SendCalled
    /\ replied.ignored
    /\ chat.loading
    /\ InFlight(chat.inst) # {}
    /\ \E q \in sends : q.inst # chat.inst

\* C18: when sendChat rejects, the history is as it was, ending with the user's
\* message; the error is the rejection's message, the send is no longer pending and
\* no request is issued in its place.
C18_FailedSendKeepsHistory ==
    [][SendResumed' /\ replied'.outcome.rejected =>
            /\ chat'.messages = chat.messages
            /\ chat.messages[Len(chat.messages)] = UserMessage(replied'.req.text)
            /\ chat'.error = replied'.outcome.message
            /\ ~chat'.loading
            /\ sends' = sends \ {replied'.req}
            /\ InFlight(chat.inst)' = {}]_vars

C18_Witness ==
    /\ SendResumed
    /\ replied.outcome.rejected
    /\ chat.error = "Chat failed (500)"
    /\ Len(chat.messages) = 3
    /\ chat.messages[2].role = "assistant"
    /\ chat.messages[3].role = "user"

\* C19: an accepted send appends the user message with the trimmed text in that step
\* and marks the send pending with its request outstanding; a successful reply
\* appends one assistant message with the reply, directly after that user message.
C19_SendAppendsThenReply ==
    [][/\ SendCalled' /\ ~replied'.ignored =>
            /\ chat'.messages = Append(chat.messages, UserMessage(trim(chat.input)))
            /\ ~chat.loading /\ chat'.loading
            /\ sends' = sends \cup {[inst |-> chat.inst, sid |-> chat.sessionId,
                                      text |-> trim(chat.input)]}
       /\ SendResumed' /\ ~replied'.outcome.rejected =>
            /\ chat.loading /\ ~chat'.loading
            /\ chat.messages[Len(chat.messages)] = UserMessage(replied'.req.text)
            /\ chat'.messages =
                   Append(chat.messages, AssistantMessage(replied'.outcome.value.reply))]_vars

C19_Witness ==
    /\ SendResumed
    /\ ~replied.outcome.rejected
    /\ chat.messages = <<UserMessage("hi"), AssistantMessage(replied.outcome.value.reply)>>
    /\ ~chat.loading

\* C20: while a ChatPanel is mounted, every step leaves the history of the step
\* before as a prefix of the history after it.
C20_HistoryAppendOnly ==
    [][shown = "results" /\ shown' = "results" /\ chat'.inst = chat.inst =>
            IsPrefix(chat.messages, chat'.messages)]_vars

C20_Witness ==
    /\ ChatMounted
    /\ Len(chat.messages) = 3
    /\ chat.messages[1].role = "user"
    /\ chat.messages[2].role = "user"
    /\ chat.messages[3].role = "assistant"
    /\ chat.error = ""

\* the mounted poller has had MaxPolls non-terminal answers: the backend of this
\* model answers no further poll
PollBudgetSpent ==
    /\ inst # 0
    /\ runs[CurrentRun].st = "timer"
    /\ runs[CurrentRun].polls = MaxPolls

\* C24: with timers firing and requests settling, a mounted poller in processing
\* leads to the lifecycle leaving processing, for results or upload, unless the
\* backend never answers with a terminal status or a failure.
C24_EventuallyLeavesProcessing ==
    (screen = "processing" /\ inst # 0) ~>
        (screen \in {"results", "upload"} \/ PollBudgetSpent)

C24_Witness ==
    /\ SettledRejected
    /\ Called("onError")
    /\ runs[settled.run].polls = MaxPolls
    /\ screen = "upload"
    /\ shown = "processing"

\* the failed HTTP answer api.js turned into the rejection of the step just taken:
\* of uploadVideo, of getSession or of sendChat
ApiEvents ==
    {e \in {uploaded, settled} : e # NoEvent}
    \cup {e \in {replied} : e # NoEvent /\ e.phase = "settle"}
HttpFailures == {e \in ApiEvents : e.answer.kind = "http" /\ ~e.answer.ok}
WithDetail == {e \in HttpFailures : e.answer.parses /\ "detail" \in DOMAIN e.answer.json}

\* C21 as stated: a failed answer whose body parses and holds a detail is raised with
\* exactly that detail as its message.
C21_DetailIsTheMessage ==
    \A e \in WithDetail : e.outcome.rejected /\ e.outcome.message = e.answer.json.detail

\* C21: a failed answer whose body parses and holds a non-empty detail string is
\* raised with exactly that detail as its message.
C21_NonEmptyDetailIsTheMessage ==
    \A e \in WithDetail :
        e.answer.json.detail # "" =>
            e.outcome.rejected /\ e.outcome.message = e.answer.json.detail

C21_Witness ==
    /\ Uploaded
    /\ uploaded \in WithDetail
    /\ uploaded.outcome.message = "Session not found"
    /\ form.error = "Session not found"

\* the message api.js makes up for a failed answer of status n
Generic(op, n) == op \o " failed (" \o ToString(n) \o ")"

\* C22: a failed answer whose body does not parse or holds no detail is raised, not
\* as a parse error, with the message '<Operation> failed (<status>)'.
C22_GenericMessage ==
    \A e \in HttpFailures \ WithDetail :
        /\ e.outcome.rejected
        /\ e.outcome.message # "Unexpected end of JSON input"
        /\ \E op \in {"Upload", "Create session", "Session", "Get session", "Fetch session",
                       "Chat", "Send chat"} :
                e.outcome.message = Generic(op, e.answer.status)

\* C23: uploadVideo is called only with the file handed to handleFile last, and only
\* if validateFile accepted it; after an invalid file no file is selected, so that
\* no submit issues a request until a valid one is chosen.
C23_OnlyValidatedFileIsUploaded ==
    [][/\ Len(form'.req) > Len(form.req) =>
            /\ form.picked # null
            /\ validateFile(form.picked) = NullId
            /\ form'.req = Append(form.req, form.picked)
       /\ form'.picked # null =>
            form'.file = IF validateFile(form'.picked) = NullId THEN form'.picked ELSE null
       /\ form'.picked = null => form'.file = null]_vars

C23_Witness ==
    /\ shown = "upload"
    /\ form.picked # null
    /\ validateFile(form.picked) = "File too large"
    /\ form.file = null
    /\ form.req = <<[name |-> <<"surf", "mov">>, size |-> 104857600]>>
    /\ form.error = "File too large"

\* C25: a run issues a request only in a step where one of its timers fires, its
\* first only once initialDelay has fired; a run whose cleanup runs while
\* initialDelay is pending has the timer cleared and never issues a request.
C25_FirstPollAfterInitialDelay ==
    /\ [](\A r \in DOMAIN runs :
            /\ runs[r].st = "initial" => (runs[r].polls = 0 /\ ~runs[r].cleaned)
            /\ runs[r].cleaned => runs[r].polls > 0)
    /\ [][\A r \in DOMAIN runs :
            /\ r \in DOMAIN runs' /\ runs'[r].polls # runs[r].polls =>
                    /\ runs[r].st \in {"initial", "timer"}
                    /\ runs'[r].st = "request"
                    /\ runs'[r].polls = runs[r].polls + 1
            /\ runs[r].st = "initial" /\ r \in DOMAIN runs' /\ runs'[r].cleaned =>
                    runs'[r].st = "cleared"]_vars

C25_Witness ==
    /\ strictMode
    /\ Len(cancelledRef) = 1
    /\ nruns = 2
    /\ DOMAIN runs = {2}
    /\ runs[2].st = "request"
    /\ runs[2].polls = 1

\* C26: when uploadVideo rejects, App's state and the poller are untouched in upload,
\* the form shows the rejection's message and is no longer uploading, and no
\* request is outstanding.
C26_FailedUploadStaysInUpload ==
    [][Uploaded' /\ uploaded'.outcome.rejected =>
            /\ screen = "upload"
            /\ UNCHANGED appVars
            /\ UNCHANGED pollerVars
            /\ form'.error = uploaded'.outcome.message
            /\ form.uploading /\ ~form'.uploading
            /\ form'.req = <<>>
            /\ (~submitIgnored(form')) <=> (form'.file # null)]_vars

C26_Witness ==
    /\ Uploaded
    /\ uploaded.outcome.rejected
    /\ uploaded.outcome.message = "Upload failed (500)"
    /\ form.error = "Upload failed (500)"
    /\ ~form.uploading
    /\ form.file = uploaded.file

\* C27: at most one uploadVideo call is outstanding, a call is made only while none
\* is and the form is not uploading, none outlives the form, and a resolved call
\* hands the session_id of its answer to onSessionCreated in that step.
C27_OneUploadAtATime ==
    /\ [](/\ Len(form.req) <= 1
          /\ form.req # <<>> => (form.uploading /\ screen = "upload"))
    /\ [][ /\ Len(form'.req) > Len(form.req) => (form.req = <<>> /\ ~form.uploading)
           /\ SessionCreated' =>
                /\ sessionId' = uploaded'.outcome.value.session_id
                /\ form.req = <<uploaded'.file>>
                /\ form'.req = <<>>
           /\ form.req # <<>> => (form'.req = form.req \/ Uploaded')]_vars

C27_Witness ==
    /\ SessionCreated
    /\ form.uploading
    /\ form.req = <<>>
    /\ screen = "processing"
    /\ shown = "upload"
    /\ form.file = null
    /\ form.picked # null

\* C28: while screen is processing or results, App's error is the empty string.
C28_ErrorOnlyInUpload == screen \in {"processing", "results"} => error = ""

C28_Witness ==
    /\ screen = "processing"
    /\ error = ""
    /\ Len(cancelledRef) >= 1
    /\ inst = 0
    /\ shown = "upload"

\* C29: in the history of the mounted ChatPanel every assistant message comes
\* directly after a user message, and while a send is outstanding the last message
\* is the user message of that send.
C29_AssistantFollowsUser ==
    ChatMounted =>
        /\ \A i \in DOMAIN chat.messages :
                chat.messages[i].role = "assistant" =>
                    i > 1 /\ chat.messages[i - 1].role = "user"
        /\ Cardinality({i \in DOMAIN chat.messages : chat.messages[i].role = "assistant"})
               <= Cardinality({i \in DOMAIN chat.messages : chat.messages[i].role = "user"})
        /\ \A q \in InFlight(chat.inst) :
                /\ chat.messages # <<>>
                /\ chat.messages[Len(chat.messages)] = UserMessage(q.text)

C29_Witness ==
    /\ ChatMounted
    /\ InFlight(chat.inst) # {}
    /\ Len(chat.messages) = 3
    /\ chat.messages[2].role = "assistant"
    /\ chat.messages[3].role = "user"

\* C30: the mounted ChatPanel is loading exactly while one of its sendChat calls is
\* outstanding: an accepted send sets the flag, and the settling of the call clears
\* it, resolved or rejected, after which a send is accepted again.
C30_LoadingIffOutstanding ==
    /\ [](ChatMounted => (chat.loading <=> InFlight(chat.inst) # {}))
    /\ [][ /\ SendCalled' /\ ~replied'.ignored => (~chat.loading /\ chat'.loading)
           /\ SendResumed' =>
                /\ chat.loading /\ ~chat'.loading
                /\ \A text \in Inputs :
                       trim(text) # "" => ~sendIgnored([chat' EXCEPT !.input = text])]_vars

C30_Witness ==
    /\ SendCalled
    /\ ~replied.ignored
    /\ chat.loading
    /\ Len(chat.messages) = 2
    /\ chat.messages[1].role = "user"
    /\ chat.messages[2].role = "user"

\* C31: when ResultsScreen leaves, the history goes with its ChatPanel; the
\* ChatPanel of the next report starts with no message, no error and nothing
\* pending, for that report's session id; and the settling of a send of an earlier
\* ChatPanel changes nothing in the one mounted now.
C31_ChatScopedToReport ==
    [][ /\ shown = "results" /\ shown' # "results" => chat'.messages = <<>>
        /\ chat'.inst # chat.inst =>
                /\ shown' = "results"
                /\ chat'.messages = <<>> /\ chat'.error = "" /\ ~chat'.loading
                /\ chat'.sessionId = report.session_id
        /\ (replied' # NoEvent /\ replied'.phase = "settle"
                /\ replied'.req.inst # chat.inst) => chat' = chat
        /\ SendResumed' =>
                replied'.req.inst = chat.inst /\ replied'.req.sid = chat.sessionId]_vars

C31_Witness ==
    /\ replied # NoEvent
    /\ replied.phase = "settle"
    /\ ~replied.mounted
    /\ ChatMounted
    /\ replied.req.inst < chat.inst
    /\ chat.loading
    /\ Len(chat.messages) = 1

KeyPressed == keyed # NoEvent

\* C32: a key press shows the easter egg exactly when the ten keys pressed last are
\* KONAMI_CODE, whatever was pressed before them; konamiIndex.current stays in 0..9.
C32_KonamiDetected ==
    /\ konamiIndex \in 0..(Len(KONAMI_CODE) - 1)
    /\ KeyPressed =>
        /\ keyed.egg <=> tail = Len(KONAMI_CODE)
        /\ keyed.egg => showEasterEgg

====
